---- MODULE Spec2Model ----
(***************************************************************************)
(* Meeting assistant: context assembly (qa.py), map-reduce summarization   *)
(* (summarization.py) and the two UI callbacks with the session's          *)
(* retriever state (gradio_app.py).                                        *)
(*                                                                         *)
(* Three specifications share one state: SpecFormat (_format_context on    *)
(* bounded inputs), SpecSummarize (summarize_meeting_with_mistral on       *)
(* bounded inputs) and Spec (a session: any sequence of button clicks).    *)
(* External services (speech-to-text, chat completion, embeddings, the     *)
(* text splitter and the vector store) are nondeterministic inputs.        *)
(***************************************************************************)
EXTENDS Integers, Sequences, FiniteSets, TLC

(* ---------------------------------------------------------------------- *)
(* Bounds                                                                 *)
(* ---------------------------------------------------------------------- *)
MaxTextLen == 2
MaxDocs == 3
MaxCharsBound == 11
MaxTranscriptLen == 4
SmallThreshold == 2
MaxChunks == 2
MaxAppDocs == 1
MaxAnswerDocs == 2
SmallContextChars == 4

(* ---------------------------------------------------------------------- *)
(* Text: a Python str is a sequence of runs [c, n], the string c repeated  *)
(* n times, so that a 5001-character transcript is one run.  Transcripts,  *)
(* questions and chunk texts are built from one-character runs; message    *)
(* literals are one run holding the literal.                               *)
(* ---------------------------------------------------------------------- *)
Run(c, n) == [c |-> c, n |-> n]

\* a string literal
Lit(s) == <<Run(s, 1)>>

\* c * n
Rep(c, n) == IF n = 0 THEN <<>> ELSE <<Run(c, n)>>

\* len(s)
RECURSIVE TLen(_)
TLen(s) == IF s = <<>> THEN 0 ELSE Head(s).n * Len(Head(s).c) + TLen(Tail(s))

Whitespace == {" ", "\n", "\t"}

RECURSIVE FirstNonSpace(_, _)
FirstNonSpace(s, i) ==
    IF i > Len(s) THEN i
    ELSE IF s[i].c \in Whitespace THEN FirstNonSpace(s, i + 1) ELSE i

RECURSIVE LastNonSpace(_, _)
LastNonSpace(s, i) ==
    IF i < 1 THEN i
    ELSE IF s[i].c \in Whitespace THEN LastNonSpace(s, i - 1) ELSE i

\* str.strip(): drop leading and trailing whitespace
strip(s) ==
    LET a == FirstNonSpace(s, 1)
        b == LastNonSpace(s, Len(s))
    IN  IF a > b THEN <<>> ELSE SubSeq(s, a, b)

\* s[:n], for s made of one-character runs
RECURSIVE Take(_, _)
Take(s, n) ==
    IF s = <<>> \/ n <= 0 THEN <<>>
    ELSE IF Head(s).n <= n THEN <<Head(s)>> \o Take(Tail(s), n - Head(s).n)
    ELSE <<Run(Head(s).c, n)>>

\* "".join(parts)
RECURSIVE Join(_)
Join(parts) == IF parts = <<>> THEN <<>> ELSE Head(parts) \o Join(Tail(parts))

\* all sequences over S of length 0..n
SeqsUpTo(S, n) == UNION {[1..m -> S] : m \in 0..n}

\* all strings over the characters S of length 0..n
Strings(S, n) == SeqsUpTo({Run(c, 1) : c \in S}, n)

(* ---------------------------------------------------------------------- *)
(* qa.py: _format_context                                                 *)
(* ---------------------------------------------------------------------- *)
DefaultMaxContextChars == 4000

NoContextMsg == Lit("No relevant context was found in the transcript.")

Document(text) == [page_content |-> text]

\* chunk = f"- {text}\n"
ContextEntry(text) == Lit("- ") \o text \o Lit("\n")

\* the for-loop of _format_context; returns parts
RECURSIVE FormatLoopNoBreak(_, _, _, _, _)
FormatLoopNoBreak(docs, max_chars, i, parts, current_len) ==
    IF i > Len(docs) THEN parts
    ELSE LET text == strip(docs[i].page_content)
             chunk == ContextEntry(text)
         IN  IF text = <<>>
             THEN FormatLoopNoBreak(docs, max_chars, i + 1, parts, current_len)
             ELSE IF current_len + TLen(chunk) > max_chars
             THEN FormatLoopNoBreak(docs, max_chars, i + 1, parts, current_len)
             ELSE FormatLoopNoBreak(docs, max_chars, i + 1,
                                    Append(parts, chunk),
                                    current_len + TLen(chunk))

RECURSIVE FormatLoop(_, _, _, _, _)
FormatLoop(docs, max_chars, i, parts, current_len) ==
    IF i > Len(docs) THEN parts
    ELSE LET text == strip(docs[i].page_content)
             chunk == ContextEntry(text)
         IN  IF text = <<>>
             THEN FormatLoop(docs, max_chars, i + 1, parts, current_len)
             ELSE IF current_len + TLen(chunk) > max_chars
             THEN parts
             ELSE FormatLoop(docs, max_chars, i + 1,
                             Append(parts, chunk),
                             current_len + TLen(chunk))

\* the empty join is returned when no entry was collected
_format_context_no_sentinel(docs, max_chars) ==
    Join(FormatLoop(docs, max_chars, 1, <<>>, 0))

_format_context(docs, max_chars) ==
    LET parts == FormatLoop(docs, max_chars, 1, <<>>, 0)
    IN  IF parts = <<>> THEN NoContextMsg ELSE Join(parts)

(* ---------------------------------------------------------------------- *)
(* Results, exceptions and the log of calls to external services          *)
(* ---------------------------------------------------------------------- *)
\* An exception: its message (a sequence of text fragments) and the chained
\* cause ("raise ... from e"): a sequence holding zero or one exception.
Exc(msg, cause) == [msg |-> msg, cause |-> cause]

\* A function's outcome: it raised err[1], or returned val; calls are the
\* requests it sent to external services, in order.
Return(v, calls) == [exc |-> FALSE, val |-> v, err |-> <<>>, calls |-> calls]
Raise(e, calls) == [exc |-> TRUE, val |-> <<>>, err |-> <<e>>, calls |-> calls]

\* what the completion service does with one request
CompletionResponses == {"fail", "malformed", "r1", "r2"}
ServiceError == Exc(Lit("service error"), <<>>)
MalformedError == Exc(Lit("list index out of range"), <<>>)

NotConfiguredMsg ==
    Lit("Mistral client is not configured. Make sure MISTRAL_API_KEY is set in your environment/.env file.")

(* ---------------------------------------------------------------------- *)
(* summarization.py                                                       *)
(* ---------------------------------------------------------------------- *)
MaxDirectCharsDefault == 5000

NothingToSummarizeMsg == Lit("No transcript content provided to summarize.")

SummaryInstruction ==
    Lit("Here is a meeting transcript (or part of it). Please summarize it in the following structure: 1. Overview 2. Key decisions 3. Action items. Transcript:\n")

MergeInstruction ==
    Lit("You have been given summaries of different parts of a long meeting. Please combine them into ONE overall meeting summary with the same structured format. Here are the partial summaries:\n\n")

\* the chat.complete request of _call_mistral_summary and the service's reply
SummaryCall(prompt_content, resp) ==
    [svc |-> "complete", system |-> "summarizer",
     user |-> SummaryInstruction \o prompt_content, resp |-> resp]

\* a failing completion is swallowed and an empty summary returned
_call_mistral_summary_swallow(prompt_content, client, resp) ==
    IF client = "None"
    THEN Raise(Exc(NotConfiguredMsg, <<>>), <<>>)
    ELSE LET calls == <<SummaryCall(prompt_content, resp)>>
         IN  IF resp \in {"fail", "malformed"}
             THEN Return(<<>>, calls)
             ELSE Return(Lit(resp), calls)

_call_mistral_summary(prompt_content, client, resp) ==
    IF client = "None"
    THEN Raise(Exc(NotConfiguredMsg, <<>>), <<>>)
    ELSE LET calls == <<SummaryCall(prompt_content, resp)>>
         IN  IF resp = "fail"
             THEN Raise(Exc(Lit("Failed to get summary from Mistral: ")
                                \o ServiceError.msg, <<ServiceError>>), calls)
             ELSE IF resp = "malformed"
             THEN Raise(Exc(Lit("Unexpected response format from Mistral: ")
                                \o MalformedError.msg, <<MalformedError>>), calls)
             ELSE Return(Lit(resp), calls)

\* f"Chunk {idx} summary:\n{partial_summary}"
ChunkLabel(idx, partial_summary) ==
    Lit("Chunk ") \o Lit(ToString(idx)) \o Lit(" summary:\n") \o partial_summary

\* "\n\n".join(partial_summaries)
RECURSIVE JoinParagraphs(_)
JoinParagraphs(parts) ==
    IF parts = <<>> THEN <<>>
    ELSE IF Len(parts) = 1 THEN parts[1]
    ELSE parts[1] \o Rep("\n", 2) \o JoinParagraphs(Tail(parts))

\* the per-chunk loop; responses[n] is the service's reply to the n-th
\* completion request of this summarize operation
RECURSIVE SummarizeChunks(_, _, _, _, _, _)
SummarizeChunks(chunks, idx, partial_summaries, calls, client, responses) ==
    IF idx > Len(chunks) THEN Return(partial_summaries, calls)
    ELSE LET r == _call_mistral_summary(chunks[idx], client,
                                        responses[Len(calls) + 1])
         IN  IF r.exc THEN Raise(r.err[1], calls \o r.calls)
             ELSE SummarizeChunks(chunks, idx + 1,
                      Append(partial_summaries, ChunkLabel(idx, r.val)),
                      calls \o r.calls, client, responses)

\* len(transcript) < max_direct_chars
IsShortStrict(transcript, max_direct_chars) == TLen(transcript) < max_direct_chars

\* len(transcript) <= max_direct_chars
IsShort(transcript, max_direct_chars) == TLen(transcript) <= max_direct_chars

\* the map-reduce branch; chunks is what _split_text returned
SummarizeLong(chunks, client, responses) ==
    LET m == SummarizeChunks(chunks, 1, <<>>, <<>>, client, responses)
    IN  IF m.exc THEN m
        ELSE LET final_messages_text == MergeInstruction \o JoinParagraphs(m.val)
                 f == _call_mistral_summary(final_messages_text, client,
                                            responses[Len(m.calls) + 1])
             IN  IF f.exc THEN Raise(f.err[1], m.calls \o f.calls)
                 ELSE Return(f.val, m.calls \o f.calls)

\* the client is checked before the transcript is looked at
summarize_client_first(transcript0, max_direct_chars, client, chunks, responses) ==
    LET transcript == strip(transcript0)
    IN  IF client = "None" THEN Raise(Exc(NotConfiguredMsg, <<>>), <<>>)
        ELSE IF transcript = <<>> THEN Return(NothingToSummarizeMsg, <<>>)
        ELSE IF IsShort(transcript, max_direct_chars)
        THEN _call_mistral_summary(transcript, client, responses[1])
        ELSE SummarizeLong(chunks, client, responses)

summarize_meeting_with_mistral(transcript0, max_direct_chars, client, chunks, responses) ==
    LET transcript == strip(transcript0)
    IN  IF transcript = <<>> THEN Return(NothingToSummarizeMsg, <<>>)
        ELSE IF IsShort(transcript, max_direct_chars)
        THEN _call_mistral_summary(transcript, client, responses[1])
        ELSE SummarizeLong(chunks, client, responses)

(* ---------------------------------------------------------------------- *)
(* transcription.py                                                       *)
(* ---------------------------------------------------------------------- *)
\* transcription is what the speech-to-text service does with the file:
\* [ok |-> FALSE] (open() or the API call raised) or [ok |-> TRUE, text |-> t]
transcribe_audio_path(file_path, transcription) ==
    LET calls == <<[svc |-> "transcribe", file |-> file_path]>>
    IN  IF transcription.ok
        THEN Return(transcription.text, calls)
        ELSE Raise(Exc(Lit("Failed to transcribe audio from path '") \o file_path
                           \o Lit("': ") \o ServiceError.msg,
                       <<ServiceError>>), calls)

(* ---------------------------------------------------------------------- *)
(* vector_store.py                                                        *)
(* ---------------------------------------------------------------------- *)
\* build is what splitting + embedding + FAISS.from_documents produce:
\* [ok |-> FALSE] (an embedding call raised) or the indexed documents.
\* The exception is not wrapped.
build_vector_store_from_transcript(transcript, build) ==
    LET calls == <<[svc |-> "embed_documents"]>>
    IN  IF build.ok
        THEN Return([docs |-> build.docs], calls)
        ELSE Raise(ServiceError, calls)

build_retriever(vector_store, k) == [vector_store |-> vector_store, k |-> k]

(* ---------------------------------------------------------------------- *)
(* qa.py: answer_question_with_mistral                                    *)
(* ---------------------------------------------------------------------- *)
NothingRelevantMsg ==
    Lit("I couldn't find anything in the transcript related to that question.")

AnswerCall(context_text, question, resp) ==
    [svc |-> "complete", system |-> "answerer",
     user |-> Lit("Here is context from the meeting transcript:\n\n")
                  \o context_text
                  \o Lit("\n\nUsing ONLY this context, answer the following question:\n\nQuestion: ")
                  \o question,
     resp |-> resp]

RetrieveCall(question) == [svc |-> "retrieve", query |-> question]

\* the empty retrieval result is not short-circuited
answer_no_empty_check(question, retriever, max_context_chars, client, retrieval, resp) ==
    IF client = "None" THEN Raise(Exc(NotConfiguredMsg, <<>>), <<>>)
    ELSE IF ~retrieval.ok THEN Raise(ServiceError, <<RetrieveCall(question)>>)
    ELSE LET context_text == _format_context(retrieval.docs, max_context_chars)
             calls == <<RetrieveCall(question),
                        AnswerCall(context_text, question, resp)>>
         IN  IF resp = "fail"
             THEN Raise(Exc(Lit("Failed to get answer from Mistral: ")
                                \o ServiceError.msg, <<ServiceError>>), calls)
             ELSE IF resp = "malformed"
             THEN Raise(Exc(Lit("Unexpected response format from Mistral: ")
                                \o MalformedError.msg, <<MalformedError>>), calls)
             ELSE Return(Lit(resp), calls)

\* a failed completion request is sent a second time
answer_retry_once(question, retriever, max_context_chars, client, retrieval, resp) ==
    IF client = "None" THEN Raise(Exc(NotConfiguredMsg, <<>>), <<>>)
    ELSE IF ~retrieval.ok THEN Raise(ServiceError, <<RetrieveCall(question)>>)
    ELSE IF retrieval.docs = <<>>
    THEN Return(NothingRelevantMsg, <<RetrieveCall(question)>>)
    ELSE LET context_text == _format_context(retrieval.docs, max_context_chars)
             calls == <<RetrieveCall(question),
                        AnswerCall(context_text, question, resp)>>
         IN  IF resp = "fail"
             THEN Raise(Exc(Lit("Failed to get answer from Mistral: ")
                                \o ServiceError.msg, <<ServiceError>>),
                        Append(calls, AnswerCall(context_text, question, resp)))
             ELSE IF resp = "malformed"
             THEN Raise(Exc(Lit("Unexpected response format from Mistral: ")
                                \o MalformedError.msg, <<MalformedError>>), calls)
             ELSE Return(Lit(resp), calls)

\* retrieval is what retriever.invoke(question) does: [ok |-> FALSE] (the
\* query embedding call raised) or the retrieved documents; resp is the
\* completion service's reply
answer_question_with_mistral(question, retriever, max_context_chars, client, retrieval, resp) ==
    IF client = "None" THEN Raise(Exc(NotConfiguredMsg, <<>>), <<>>)
    ELSE IF ~retrieval.ok THEN Raise(ServiceError, <<RetrieveCall(question)>>)
    ELSE IF retrieval.docs = <<>>
    THEN Return(NothingRelevantMsg, <<RetrieveCall(question)>>)
    ELSE LET context_text == _format_context(retrieval.docs, max_context_chars)
             calls == <<RetrieveCall(question),
                        AnswerCall(context_text, question, resp)>>
         IN  IF resp = "fail"
             THEN Raise(Exc(Lit("Failed to get answer from Mistral: ")
                                \o ServiceError.msg, <<ServiceError>>), calls)
             ELSE IF resp = "malformed"
             THEN Raise(Exc(Lit("Unexpected response format from Mistral: ")
                                \o MalformedError.msg, <<MalformedError>>), calls)
             ELSE Return(Lit(resp), calls)

(* ---------------------------------------------------------------------- *)
(* gradio_app.py                                                          *)
(* ---------------------------------------------------------------------- *)
PreviewChars == 1500
RetrieverK == 4

\* Python's None for the retriever: a retriever value is <<>> (None) or <<r>>
None == <<>>

NoAudioMsg == Lit("No audio file uploaded yet.")
TruncatedMarker == Lit("\n\n...[truncated]")
RunFirstMsg == Lit("Please run **Transcribe & Summarize** first so I can build the meeting memory.")
EnterQuestionMsg == Lit("Please enter a question about the meeting.")
AnswerPlaceholder == Lit("I'll answer your question here once the meeting has been processed.")

TranscriptionErrorText(e) == Lit("Error during transcription: ") \o e.msg
SummarizationErrorText(e) == Lit("Error during summarization: ") \o e.msg
IndexErrorText(e) == Lit("Error while building vector store / retriever: ") \o e.msg
AnswerErrorText(e) == Lit("Error while answering your question: ") \o e.msg

\* env: what the external services do during this request
\*   env.transcription, env.chunks, env.responses, env.build
\* the summarize call is not wrapped in try/except
process_audio_unguarded_summary(audio_path, client, env) ==
    IF audio_path = <<>> THEN Return(<<NoAudioMsg, <<>>, None>>, <<>>)
    ELSE
    LET t == transcribe_audio_path(audio_path, env.transcription) IN
    IF t.exc THEN Return(<<TranscriptionErrorText(t.err[1]), <<>>, None>>, t.calls)
    ELSE
    LET transcript == t.val
        sm == summarize_meeting_with_mistral(transcript, MaxDirectCharsDefault,
                                             client, env.chunks, env.responses)
        b == build_vector_store_from_transcript(transcript, env.build)
        calls == t.calls \o sm.calls \o b.calls
    IN  IF sm.exc THEN Raise(sm.err[1], t.calls \o sm.calls)
        ELSE IF b.exc
        THEN Return(<<Take(transcript, PreviewChars), IndexErrorText(b.err[1]), None>>, calls)
        ELSE Return(<<Take(transcript, PreviewChars)
                          \o (IF TLen(transcript) > PreviewChars
                              THEN TruncatedMarker ELSE <<>>),
                      sm.val, <<build_retriever(b.val, RetrieverK)>> >>, calls)

\* an index failure drops the transcript preview as well
process_audio_no_preview(audio_path, client, env) ==
    IF audio_path = <<>> THEN Return(<<NoAudioMsg, <<>>, None>>, <<>>)
    ELSE
    LET t == transcribe_audio_path(audio_path, env.transcription) IN
    IF t.exc THEN Return(<<TranscriptionErrorText(t.err[1]), <<>>, None>>, t.calls)
    ELSE
    LET transcript == t.val
        sm == summarize_meeting_with_mistral(transcript, MaxDirectCharsDefault,
                                             client, env.chunks, env.responses)
        summary == IF sm.exc THEN SummarizationErrorText(sm.err[1]) ELSE sm.val
        b == build_vector_store_from_transcript(transcript, env.build)
        calls == t.calls \o sm.calls \o b.calls
    IN  IF b.exc
        THEN Return(<<IndexErrorText(b.err[1]), <<>>, None>>, calls)
        ELSE Return(<<Take(transcript, PreviewChars)
                          \o (IF TLen(transcript) > PreviewChars
                              THEN TruncatedMarker ELSE <<>>),
                      summary, <<build_retriever(b.val, RetrieverK)>> >>, calls)

\* a failed summarization is reported with an empty summary
process_audio_blank_summary(audio_path, client, env) ==
    IF audio_path = <<>> THEN Return(<<NoAudioMsg, <<>>, None>>, <<>>)
    ELSE
    LET t == transcribe_audio_path(audio_path, env.transcription) IN
    IF t.exc THEN Return(<<TranscriptionErrorText(t.err[1]), <<>>, None>>, t.calls)
    ELSE
    LET transcript == t.val
        sm == summarize_meeting_with_mistral(transcript, MaxDirectCharsDefault,
                                             client, env.chunks, env.responses)
        summary == IF sm.exc THEN <<>> ELSE sm.val
        b == build_vector_store_from_transcript(transcript, env.build)
        calls == t.calls \o sm.calls \o b.calls
    IN  IF b.exc
        THEN Return(<<Take(transcript, PreviewChars), IndexErrorText(b.err[1]), None>>, calls)
        ELSE Return(<<Take(transcript, PreviewChars)
                          \o (IF TLen(transcript) > PreviewChars
                              THEN TruncatedMarker ELSE <<>>),
                      summary, <<build_retriever(b.val, RetrieverK)>> >>, calls)

\* returns (transcript_preview, summary_markdown, retriever)
process_audio(audio_path, client, env) ==
    IF audio_path = <<>> THEN Return(<<NoAudioMsg, <<>>, None>>, <<>>)
    ELSE
    LET t == transcribe_audio_path(audio_path, env.transcription) IN
    IF t.exc THEN Return(<<TranscriptionErrorText(t.err[1]), <<>>, None>>, t.calls)
    ELSE
    LET transcript == t.val
        sm == summarize_meeting_with_mistral(transcript, MaxDirectCharsDefault,
                                             client, env.chunks, env.responses)
        summary == IF sm.exc THEN SummarizationErrorText(sm.err[1]) ELSE sm.val
        b == build_vector_store_from_transcript(transcript, env.build)
        calls == t.calls \o sm.calls \o b.calls
    IN  IF b.exc
        THEN Return(<<Take(transcript, PreviewChars), IndexErrorText(b.err[1]), None>>, calls)
        ELSE Return(<<Take(transcript, PreviewChars)
                          \o (IF TLen(transcript) > PreviewChars
                              THEN TruncatedMarker ELSE <<>>),
                      summary, <<build_retriever(b.val, RetrieverK)>> >>, calls)

\* the question is checked after the answer was computed
answer_question_ui_late_check(question, retriever, client, retrieval, resp) ==
    IF retriever = None THEN Return(RunFirstMsg, <<>>)
    ELSE LET a == answer_question_with_mistral(question, retriever[1],
                      DefaultMaxContextChars, client, retrieval, resp)
         IN  IF strip(question) = <<>> THEN Return(EnterQuestionMsg, a.calls)
             ELSE IF a.exc THEN Return(AnswerErrorText(a.err[1]), a.calls)
             ELSE Return(a.val, a.calls)

answer_question_ui(question, retriever, client, retrieval, resp) ==
    IF retriever = None THEN Return(RunFirstMsg, <<>>)
    ELSE IF question = <<>> \/ strip(question) = <<>>
    THEN Return(EnterQuestionMsg, <<>>)
    ELSE LET a == answer_question_with_mistral(question, retriever[1],
                      DefaultMaxContextChars, client, retrieval, resp)
         IN  IF a.exc THEN Return(AnswerErrorText(a.err[1]), a.calls)
             ELSE Return(a.val, a.calls)

\* transcribe_button.click(..., outputs=[transcript_box, summary_box,
\* retriever_state]): a failed rebuild keeps the previous retriever
TranscribeOutputsKeepOld(ret, old) ==
    <<ret[1], ret[2], IF ret[3] = None THEN old ELSE ret[3]>>

\* transcribe_button.click(..., outputs=[transcript_box, summary_box,
\* retriever_state]): the new values of the three components
TranscribeOutputs(ret, old) == <<ret[1], ret[2], ret[3]>>

(* ---------------------------------------------------------------------- *)
(* State                                                                  *)
(* ---------------------------------------------------------------------- *)
VARIABLES
    fc_docs,              \* _format_context: argument docs
    fc_max_chars,         \* _format_context: argument max_chars
    fc_done,              \* _format_context has returned
    fc_result,            \* _format_context: returned string
    mistral_client,       \* config.mistral_client: "None" or "client"
    sm_transcript,        \* summarize_meeting_with_mistral: argument transcript
    sm_max_direct_chars,  \* summarize_meeting_with_mistral: argument max_direct_chars
    sm_chunks,            \* what _split_text returns for the transcript
    sm_responses,         \* the completion service's reply to the n-th request
    sm_done,              \* summarize_meeting_with_mistral has finished
    sm_result,            \* its outcome: returned text or raised error, and calls
    retriever_state,      \* gr.State: None or <<retriever>>
    transcript_box,       \* gr.Textbox "Transcript (preview)"
    summary_box,          \* gr.Markdown "Meeting Summary"
    answer_box,           \* gr.Markdown "Answer"
    last,                 \* the most recent request: handler, inputs, what the
                          \* services did, whether it raised, calls it issued
    last_upload,          \* inputs of the most recent process_audio request
    aq_question,          \* answer_question_with_mistral: argument question
    aq_max_context_chars, \* answer_question_with_mistral: argument max_context_chars
    aq_retrieval,         \* what retriever.invoke(question) does
    aq_resp,              \* the completion service's reply
    aq_done,              \* answer_question_with_mistral has finished
    aq_result             \* its outcome: returned text or raised error, and calls

fcVars == <<fc_docs, fc_max_chars, fc_done, fc_result>>

smVars == <<sm_transcript, sm_max_direct_chars, sm_chunks, sm_responses,
            sm_done, sm_result>>

uiVars == <<retriever_state, transcript_box, summary_box, answer_box>>

appVars == <<uiVars, last, last_upload>>

aqVars == <<aq_question, aq_max_context_chars, aq_retrieval, aq_resp,
            aq_done, aq_result>>

vars == <<fcVars, mistral_client, smVars, appVars, aqVars>>

NoTranscription == [ok |-> FALSE, text |-> <<>>]
NoBuild == [ok |-> FALSE, docs |-> <<>>]
NoRetrieval == [ok |-> FALSE, docs |-> <<>>]

NoRequest ==
    [handler |-> "none", exc |-> FALSE, calls |-> <<>>,
     audio_path |-> <<>>, transcription |-> NoTranscription,
     summ |-> Return(<<>>, <<>>), build |-> NoBuild,
     question |-> <<>>, retriever |-> None, retrieval |-> NoRetrieval,
     resp |-> "r1"]

NoUpload == [audio_path |-> <<>>, transcription_ok |-> FALSE, build |-> NoBuild]

\* build_interface(): the components' initial values
AppIdle ==
    /\ retriever_state = None
    /\ transcript_box = <<>>
    /\ summary_box = <<>>
    /\ answer_box = AnswerPlaceholder
    /\ last = NoRequest
    /\ last_upload = NoUpload

AqIdle ==
    /\ aq_question = <<>>
    /\ aq_max_context_chars = DefaultMaxContextChars
    /\ aq_retrieval = NoRetrieval
    /\ aq_resp = "r1"
    /\ aq_done = FALSE
    /\ aq_result = Return(<<>>, <<>>)

FcIdle ==
    /\ fc_docs = <<>>
    /\ fc_max_chars = 0
    /\ fc_done = FALSE
    /\ fc_result = <<>>

SmIdle ==
    /\ sm_transcript = <<>>
    /\ sm_max_direct_chars = MaxDirectCharsDefault
    /\ sm_chunks = <<>>
    /\ sm_responses = <<>>
    /\ sm_done = FALSE
    /\ sm_result = Return(<<>>, <<>>)

(* ---------------------------------------------------------------------- *)
(* Specification of _format_context on bounded inputs                     *)
(* ---------------------------------------------------------------------- *)
FcChars == {"a", " "}
FcTexts == Strings(FcChars, MaxTextLen)
FcDocLists == SeqsUpTo({Document(t) : t \in FcTexts}, MaxDocs)
FcMaxChars == (0..MaxCharsBound) \cup {DefaultMaxContextChars}

InitFormat ==
    /\ fc_docs \in FcDocLists
    /\ fc_max_chars \in FcMaxChars
    /\ fc_done = FALSE
    /\ fc_result = <<>>
    /\ mistral_client = "client"
    /\ SmIdle
    /\ AppIdle
    /\ AqIdle

FormatContext ==
    /\ ~fc_done
    /\ fc_result' = _format_context(fc_docs, fc_max_chars)
    /\ fc_done' = TRUE
    /\ UNCHANGED <<fc_docs, fc_max_chars, mistral_client, smVars, appVars,
                   aqVars>>

NextFormat == FormatContext

SpecFormat == InitFormat /\ [][NextFormat]_vars

(* ---------------------------------------------------------------------- *)
(* C1                                                                     *)
(* ---------------------------------------------------------------------- *)
\* entries of the chunks that are non-empty after trimming, in the given order
FcEntries ==
    LET kept == SelectSeq(fc_docs, LAMBDA d : strip(d.page_content) # <<>>)
    IN  [i \in 1..Len(kept) |-> ContextEntry(strip(kept[i].page_content))]

FcPrefix(k) == Join(SubSeq(FcEntries, 1, k))

\* k whole entries were taken and entry k+1 (if any) would not fit
FcStopsAt(k) ==
    /\ TLen(FcPrefix(k)) <= fc_max_chars
    /\ k < Len(FcEntries) => TLen(FcPrefix(k + 1)) > fc_max_chars

PaddedTranscript == Rep(" ", 1) \o Rep("a", MaxDirectCharsDefault) \o Rep("\n", 1)

SmTranscripts ==
    Strings({"a", " "}, MaxTranscriptLen)
        \cup {Rep("a", MaxDirectCharsDefault),
              Rep("a", MaxDirectCharsDefault + 1),
              PaddedTranscript}

SmThresholds == {SmallThreshold, MaxDirectCharsDefault}

ChunkTexts == {Rep("a", 1), Rep("a", 2)}
ChunkLists == SeqsUpTo(ChunkTexts, MaxChunks)
ResponseSeqs == [1..(MaxChunks + 1) -> CompletionResponses]

InitSummarize ==
    /\ FcIdle
    /\ mistral_client \in {"None", "client"}
    /\ sm_transcript \in SmTranscripts
    /\ sm_max_direct_chars \in SmThresholds
    \* _split_text is only called on the map-reduce branch
    /\ sm_chunks \in IF IsShort(strip(sm_transcript), sm_max_direct_chars)
                     THEN {<<>>} ELSE ChunkLists
    /\ sm_responses \in ResponseSeqs
    /\ sm_done = FALSE
    /\ sm_result = Return(<<>>, <<>>)
    /\ AppIdle
    /\ AqIdle

Summarize ==
    /\ ~sm_done
    /\ sm_result' = summarize_meeting_with_mistral(sm_transcript,
                        sm_max_direct_chars, mistral_client, sm_chunks,
                        sm_responses)
    /\ sm_done' = TRUE
    /\ UNCHANGED <<fcVars, mistral_client, sm_transcript,
                   sm_max_direct_chars, sm_chunks, sm_responses, appVars,
                   aqVars>>

NextSummarize == Summarize

SpecSummarize == InitSummarize /\ [][NextSummarize]_vars

(* ---------------------------------------------------------------------- *)
(* C2                                                                     *)
(* ---------------------------------------------------------------------- *)
SmCalls == sm_result.calls

\* one request carrying the trimmed transcript, whose reply is returned
SmDirect ==
    /\ Len(SmCalls) = 1
    /\ SmCalls[1].user = SummaryInstruction \o strip(sm_transcript)
    /\ sm_result.val = Lit(SmCalls[1].resp)

\* one request per chunk in chunk order, then one merge request over the
\* labelled partial summaries, whose reply is returned
SmMapReduce ==
    LET n == Len(sm_chunks)
    IN  /\ Len(SmCalls) = n + 1
        /\ \A i \in 1..n : SmCalls[i].user = SummaryInstruction \o sm_chunks[i]
        /\ SmCalls[n + 1].user =
               SummaryInstruction \o MergeInstruction \o
               JoinParagraphs([i \in 1..n |-> ChunkLabel(i, Lit(SmCalls[i].resp))])
        /\ sm_result.val = Lit(SmCalls[n + 1].resp)

SmReturned == sm_done /\ ~sm_result.exc /\ strip(sm_transcript) # <<>>

\* C2 as stated: the branch is selected by the length of the transcript
\* passed in.
C2_Original ==
    SmReturned =>
        /\ TLen(sm_transcript) <= sm_max_direct_chars => SmDirect
        /\ TLen(sm_transcript) > sm_max_direct_chars => SmMapReduce

\* C2 (amended): whenever summarize_meeting_with_mistral returns a summary of
\* a transcript that is non-empty after trimming, the branch is selected by
\* the length of the TRIMMED transcript: <= threshold gives exactly one
\* completion call whose output is returned; > threshold gives one call per
\* chunk in chunk order followed by exactly one merge call (chunks + 1 calls)
\* whose output is returned.
C2_BranchSelection ==
    SmReturned =>
        /\ TLen(strip(sm_transcript)) <= sm_max_direct_chars => SmDirect
        /\ TLen(strip(sm_transcript)) > sm_max_direct_chars => SmMapReduce

\* a map-reduce run over two chunks has returned the merge output
C2_Witness ==
    /\ SmReturned
    /\ TLen(strip(sm_transcript)) > sm_max_direct_chars
    /\ Len(sm_chunks) = 2
    /\ Len(SmCalls) = 3

(* ---------------------------------------------------------------------- *)
(* C5                                                                     *)
(* ---------------------------------------------------------------------- *)
\* C5: an empty or whitespace-only transcript returns the fixed "nothing to
\* summarize" message with no completion call, whether or not the client is
\* configured.
C5_EmptyTranscriptShortCircuit ==
    (sm_done /\ strip(sm_transcript) = <<>>) =>
        /\ ~sm_result.exc
        /\ sm_result.val = NothingToSummarizeMsg
        /\ sm_result.calls = <<>>

\* a whitespace-only transcript was summarized with no client configured
C5_Witness ==
    /\ sm_done
    /\ sm_transcript # <<>>
    /\ strip(sm_transcript) = <<>>
    /\ mistral_client = "None"
    /\ sm_result.val = NothingToSummarizeMsg

(* ---------------------------------------------------------------------- *)
(* C6                                                                     *)
(* ---------------------------------------------------------------------- *)
FailedResponses == {"fail", "malformed"}

\* C6: a failed completion call (direct, partial or merge) is the last call
\* of the summarize operation, which ends with an error and returns no text.
C6_CallFailureIsFatal ==
    sm_done =>
        \A i \in 1..Len(SmCalls) :
            SmCalls[i].resp \in FailedResponses =>
                /\ i = Len(SmCalls)
                /\ sm_result.exc
                /\ sm_result.err # <<>>
                /\ sm_result.val = <<>>

\* the second partial call failed after a first partial summary was collected
C6_Witness ==
    /\ sm_done
    /\ Len(sm_chunks) = 2
    /\ Len(SmCalls) = 2
    /\ SmCalls[1].resp \notin FailedResponses
    /\ SmCalls[2].resp \in FailedResponses
    /\ sm_result.exc


(* ---------------------------------------------------------------------- *)
(* Specification of a session: any sequence of the two button clicks      *)
(* ---------------------------------------------------------------------- *)
AudioPaths == {<<>>, Lit("meeting.wav")}

AppTranscripts ==
    {<<>>, Rep(" ", 1), Rep("a", 1),
     Rep("a", PreviewChars), Rep("a", PreviewChars + 1),
     Rep("a", MaxDirectCharsDefault + 1)}

AppChunkLists == SeqsUpTo({Rep("a", 1)}, MaxChunks)
AppResponses == {"fail", "r1"}
AppDocTexts == {Rep("a", 1), Rep(" ", 1)}
AppBuilds ==
    {NoBuild} \cup
    {[ok |-> TRUE, docs |-> d] : d \in SeqsUpTo({Document(t) : t \in AppDocTexts}, MaxAppDocs)}

\* the replies to n completion requests; a summarize operation stops at the
\* first failed request, so the replies after a failure are never observed
\* and one representative is kept for them
RepliesFor(n) ==
    {rs \in [1..n -> AppResponses] :
         \A i \in 1..(n - 1) : rs[i] = "fail" => rs[i + 1] = "fail"}

\* the services' behaviours that one process_audio request can meet: chunks
\* and completion replies exist only for the calls the transcript can lead to
EnvsFor(t) ==
    LET long == ~IsShort(strip(t), MaxDirectCharsDefault)
        chunkLists == IF long THEN AppChunkLists ELSE {<<>>}
        needed(c) == IF strip(t) = <<>> THEN 0
                     ELSE IF long THEN Len(c) + 1 ELSE 1
    IN  UNION {{[transcription |-> [ok |-> TRUE, text |-> t], chunks |-> c,
                 responses |-> rs, build |-> b] :
                    rs \in RepliesFor(needed(c)), b \in AppBuilds} :
               c \in chunkLists}

NoServicesEnv ==
    [transcription |-> NoTranscription, chunks |-> <<>>, responses |-> <<>>,
     build |-> NoBuild]

UploadEnvs == {NoServicesEnv} \cup UNION {EnvsFor(t) : t \in AppTranscripts}

ProcessEnvs(audio_path) ==
    IF audio_path = <<>> THEN {NoServicesEnv} ELSE UploadEnvs

\* click on "Transcribe & Summarize"
ProcessAudio ==
    \E audio_path \in AudioPaths :
    \E env \in ProcessEnvs(audio_path) :
        LET r == process_audio(audio_path, mistral_client, env)
            transcribed == audio_path # <<>> /\ env.transcription.ok
        IN  /\ IF r.exc
               THEN UNCHANGED <<retriever_state, transcript_box, summary_box>>
               ELSE LET outs == TranscribeOutputs(r.val, retriever_state)
                    IN  /\ transcript_box' = outs[1]
                        /\ summary_box' = outs[2]
                        /\ retriever_state' = outs[3]
            /\ last' = [NoRequest EXCEPT
                          !.handler = "process_audio",
                          !.exc = r.exc,
                          !.calls = r.calls,
                          !.audio_path = audio_path,
                          !.transcription = env.transcription,
                          !.summ = IF transcribed
                                   THEN summarize_meeting_with_mistral(
                                            env.transcription.text,
                                            MaxDirectCharsDefault, mistral_client,
                                            env.chunks, env.responses)
                                   ELSE Return(<<>>, <<>>),
                          !.build = env.build]
            /\ last_upload' = [audio_path |-> audio_path,
                               transcription_ok |-> env.transcription.ok,
                               build |-> env.build]
            /\ UNCHANGED <<answer_box, fcVars, mistral_client, smVars, aqVars>>

Questions == {<<>>, Rep(" ", 1), Rep("q", 1)}

\* sequences of distinct positions 1..n, of length 0..m
RECURSIVE Picks(_, _)
Picks(n, m) ==
    IF m = 0 THEN {<<>>}
    ELSE LET shorter == Picks(n, m - 1)
         IN  shorter \cup
             {Append(p, i) : p \in {q \in shorter : Len(q) = m - 1},
                             i \in 1..n}

DistinctPicks(n, m) ==
    {p \in Picks(n, m) : \A i, j \in 1..Len(p) : i # j => p[i] # p[j]}

\* what retriever.invoke can do on this retriever: raise, or return at most
\* k of the indexed documents in some order of relevance
Retrievals(retriever) ==
    LET docs == retriever.vector_store.docs
        m == IF retriever.k < Len(docs) THEN retriever.k ELSE Len(docs)
    IN  {NoRetrieval} \cup
        {[ok |-> TRUE, docs |-> [i \in 1..Len(p) |-> docs[p[i]]]] :
             p \in DistinctPicks(Len(docs), m)}

AskEnvs(question) ==
    IF retriever_state = None \/ strip(question) = <<>>
    THEN {[retrieval |-> NoRetrieval, resp |-> "r1"]}
    ELSE {[retrieval |-> rt, resp |-> rp] :
              rt \in Retrievals(retriever_state[1]), rp \in CompletionResponses}

\* click on "Ask"
AskQuestion ==
    \E question \in Questions :
    \E env \in AskEnvs(question) :
        LET r == answer_question_ui(question, retriever_state, mistral_client,
                                    env.retrieval, env.resp)
        IN  /\ answer_box' = IF r.exc THEN answer_box ELSE r.val
            /\ last' = [NoRequest EXCEPT
                          !.handler = "answer_question_ui",
                          !.exc = r.exc,
                          !.calls = r.calls,
                          !.question = question,
                          !.retriever = retriever_state,
                          !.retrieval = env.retrieval,
                          !.resp = env.resp]
            /\ UNCHANGED <<retriever_state, transcript_box, summary_box,
                           last_upload, fcVars, mistral_client, smVars,
                           aqVars>>

Init ==
    /\ FcIdle
    /\ SmIdle
    /\ mistral_client \in {"None", "client"}
    /\ AppIdle
    /\ AqIdle

Next == ProcessAudio \/ AskQuestion

Spec == Init /\ [][Next]_vars

(* ---------------------------------------------------------------------- *)
(* C3                                                                     *)
(* ---------------------------------------------------------------------- *)
Asked == last.handler = "answer_question_ui"

Processed == last.handler = "process_audio"

\* C3: an ask request with no index, or with an empty or whitespace-only
\* question, returns the fixed guidance message and issues no service call.
C3_GuidanceWithoutServiceCall ==
    (Asked /\ (last.retriever = None \/ strip(last.question) = <<>>)) =>
        /\ ~last.exc
        /\ last.calls = <<>>
        /\ answer_box = IF last.retriever = None THEN RunFirstMsg
                        ELSE EnterQuestionMsg

\* a whitespace-only question was asked while an index exists and the
\* completion client is configured
C3_Witness ==
    /\ Asked
    /\ last.retriever # None
    /\ last.question = Rep(" ", 1)
    /\ mistral_client = "client"
    /\ answer_box = EnterQuestionMsg

(* ---------------------------------------------------------------------- *)
(* C4                                                                     *)
(* ---------------------------------------------------------------------- *)
CompletionCalls == SelectSeq(last.calls, LAMBDA c : c.svc = "complete")

\* an ask request with an index and a question whose retrieval returned
\* zero chunks
AskedWithEmptyRetrieval ==
    /\ Asked
    /\ last.retriever # None
    /\ strip(last.question) # <<>>
    /\ last.retrieval.ok
    /\ last.retrieval.docs = <<>>

\* C4 as stated: the "nothing relevant" message is returned in every
\* configuration state of the completion client.
C4_Original ==
    AskedWithEmptyRetrieval =>
        /\ answer_box = NothingRelevantMsg
        /\ CompletionCalls = <<>>

\* C4 (amended): with a configured completion client, a retrieval result of
\* zero chunks returns the fixed "nothing relevant" message and issues no
\* completion call; with an unconfigured client the request ends with the
\* "client is not configured" error text before any retrieval, and still
\* issues no completion call.
C4_NothingRelevantWithoutCompletion ==
    AskedWithEmptyRetrieval =>
        /\ CompletionCalls = <<>>
        /\ mistral_client = "client" =>
               /\ answer_box = NothingRelevantMsg
               /\ last.calls = <<RetrieveCall(last.question)>>
        /\ mistral_client = "None" =>
               /\ answer_box = AnswerErrorText(Exc(NotConfiguredMsg, <<>>))
               /\ last.calls = <<>>

\* the retriever of a non-empty index returned nothing for a question
C4_Witness ==
    /\ AskedWithEmptyRetrieval
    /\ mistral_client = "client"
    /\ Len(last.retriever[1].vector_store.docs) > 0
    /\ answer_box = NothingRelevantMsg

(* ---------------------------------------------------------------------- *)
(* C7                                                                     *)
(* ---------------------------------------------------------------------- *)
Transcribed == Processed /\ last.audio_path # <<>> /\ last.transcription.ok

\* C7: when transcription succeeds and the index build fails, process_audio
\* returns the first 1500 characters of the transcript, the index-error
\* message, and no retriever.
C7_PreviewSurvivesIndexFailure ==
    (Transcribed /\ ~last.build.ok) =>
        /\ ~last.exc
        /\ transcript_box = Take(last.transcription.text, PreviewChars)
        /\ summary_box = IndexErrorText(ServiceError)
        /\ retriever_state = None

\* the index build failed after a 1501-character transcript was summarized
C7_Witness ==
    /\ Transcribed
    /\ ~last.build.ok
    /\ TLen(last.transcription.text) = PreviewChars + 1
    /\ ~last.summ.exc
    /\ TLen(transcript_box) = PreviewChars

(* ---------------------------------------------------------------------- *)
(* C8                                                                     *)
(* ---------------------------------------------------------------------- *)
\* C8 as stated: a usable retriever is only returned with the output of a
\* successful summarize operation.
C8_Original ==
    (Processed /\ retriever_state # None) =>
        /\ ~last.summ.exc
        /\ summary_box = last.summ.val

\* C8 (amended): process_audio also exposes a failed summarization next to a
\* working index: whenever it returns a usable retriever, the summary it
\* returns is the output of the summarize operation if that succeeded, and
\* otherwise the text "Error during summarization: <cause>" - never an empty
\* summary and never text of a partial summary.
C8_SummaryOrMarkedError ==
    (Processed /\ retriever_state # None) =>
        /\ ~last.exc
        /\ ~last.summ.exc => summary_box = last.summ.val
        /\ last.summ.exc =>
               summary_box = Lit("Error during summarization: ")
                                 \o last.summ.err[1].msg

\* a map-reduce summarization failed at its second call and the index was
\* built all the same
C8_Witness ==
    /\ Processed
    /\ retriever_state # None
    /\ last.summ.exc
    /\ Len(last.summ.calls) = 2

(* ---------------------------------------------------------------------- *)
(* C9                                                                     *)
(* ---------------------------------------------------------------------- *)
\* the answer operation behind an ask request failed
AnswerFailed ==
    /\ Asked
    /\ last.retriever # None
    /\ strip(last.question) # <<>>
    /\ \/ mistral_client = "None"
       \/ ~last.retrieval.ok
       \/ last.retrieval.docs # <<>> /\ last.resp \in {"fail", "malformed"}

\* C9: neither callback ever ends with an exception; a failed transcription,
\* summarization, index build or answer is replaced by its error text.
C9_NoUncaughtException ==
    /\ ~last.exc
    /\ (Processed /\ last.audio_path # <<>> /\ ~last.transcription.ok) =>
           transcript_box[1].c = "Error during transcription: "
    /\ (Transcribed /\ last.build.ok /\ last.summ.exc) =>
           summary_box[1].c = "Error during summarization: "
    /\ (Transcribed /\ ~last.build.ok) =>
           summary_box[1].c = "Error while building vector store / retriever: "
    /\ AnswerFailed =>
           answer_box[1].c = "Error while answering your question: "

\* summarization failed with no client configured and the index build
\* failed as well
C9_Witness ==
    /\ Transcribed
    /\ mistral_client = "None"
    /\ last.summ.exc
    /\ ~last.build.ok
    /\ ~last.exc

(* ---------------------------------------------------------------------- *)
(* C10                                                                    *)
(* ---------------------------------------------------------------------- *)
\* the most recent process_audio request built an index
LastUploadBuilt ==
    /\ last_upload.audio_path # <<>>
    /\ last_upload.transcription_ok
    /\ last_upload.build.ok

\* C10: the session holds exactly the index built by the most recent
\* process_audio request, and none if that request had no audio, failed to
\* transcribe or failed to build; ask requests leave it unchanged.
C10_OnlyLatestIndex ==
    retriever_state =
        IF LastUploadBuilt
        THEN <<build_retriever([docs |-> last_upload.build.docs], RetrieverK)>>
        ELSE None

\* an index was built and queried, then a later upload failed to build
C10_Witness ==
    /\ Processed
    /\ last_upload.audio_path # <<>>
    /\ last_upload.transcription_ok
    /\ ~last_upload.build.ok
    /\ answer_box = Lit("r1")
    /\ retriever_state = None

(* ---------------------------------------------------------------------- *)
(* C13                                                                    *)
(* ---------------------------------------------------------------------- *)
\* no chunk is left after trimming: the list is empty or all of its chunks
\* are empty or whitespace-only
FcNoneSurvives == FcEntries = <<>>

\* the first non-empty chunk's entry is already longer than max_chars
FcFirstOverBudget ==
    FcEntries # <<>> /\ TLen(FcEntries[1]) > fc_max_chars

FcSentinelInside == \E i \in 1..Len(fc_result) : fc_result[i] = NoContextMsg[1]

\* C13 as stated: the sentinel is returned exactly for an empty list and for
\* a list whose chunks are all empty or whitespace-only after trimming.
C13_Original ==
    fc_done => (fc_result = NoContextMsg <=> FcNoneSurvives)

\* C13 (amended): the sentinel is returned exactly when no entry is
\* included: for an empty list, for a list whose chunks are all empty or
\* whitespace-only after trimming, and also when the first non-empty chunk's
\* entry is longer than max_chars; whenever at least one entry is included
\* the output is the entries only and the sentinel is not part of it.
C13_SentinelIffNothingIncluded ==
    fc_done =>
        /\ fc_result = NoContextMsg <=> (FcNoneSurvives \/ FcFirstOverBudget)
        /\ ~(FcNoneSurvives \/ FcFirstOverBudget) =>
               /\ ~FcSentinelInside
               /\ fc_result[1] = ContextEntry(<<>>)[1]

\* three whitespace-only chunks were assembled under the default budget
C13_Witness ==
    /\ fc_done
    /\ Len(fc_docs) = 3
    /\ \A i \in 1..3 : fc_docs[i].page_content # <<>>
    /\ FcNoneSurvives
    /\ fc_max_chars = DefaultMaxContextChars
    /\ fc_result = NoContextMsg

(* ---------------------------------------------------------------------- *)
(* Specification of answer_question_with_mistral on bounded inputs        *)
(* ---------------------------------------------------------------------- *)
AqQuestions == {<<>>, Rep("q", 1)}

\* a chunk, a whitespace-only chunk, and a chunk whose entry does not fit
\* the default context budget
AqDocTexts == {Rep("a", 1), Rep(" ", 1), Rep("b", DefaultMaxContextChars)}

AqRetrievals ==
    {NoRetrieval} \cup
    {[ok |-> TRUE, docs |-> d] :
         d \in SeqsUpTo({Document(t) : t \in AqDocTexts}, MaxAnswerDocs)}

AqMaxContextChars == {SmallContextChars, DefaultMaxContextChars}

InitAnswer ==
    /\ FcIdle
    /\ SmIdle
    /\ AppIdle
    /\ mistral_client \in {"None", "client"}
    /\ aq_question \in AqQuestions
    /\ aq_max_context_chars \in AqMaxContextChars
    /\ aq_retrieval \in AqRetrievals
    /\ aq_resp \in CompletionResponses
    /\ aq_done = FALSE
    /\ aq_result = Return(<<>>, <<>>)

Answer ==
    /\ ~aq_done
    /\ aq_result' = answer_question_with_mistral(aq_question,
                        build_retriever([docs |-> aq_retrieval.docs], RetrieverK),
                        aq_max_context_chars, mistral_client, aq_retrieval,
                        aq_resp)
    /\ aq_done' = TRUE
    /\ UNCHANGED <<fcVars, smVars, appVars, mistral_client, aq_question,
                   aq_max_context_chars, aq_retrieval, aq_resp>>

NextAnswer == Answer

SpecAnswer == InitAnswer /\ [][NextAnswer]_vars

(* ---------------------------------------------------------------------- *)
(* C14                                                                    *)
(* ---------------------------------------------------------------------- *)
AqCalls == aq_result.calls

\* the retriever was invoked and returned at least one chunk
AqRetrievedSome ==
    /\ aq_done
    /\ mistral_client = "client"
    /\ aq_retrieval.ok
    /\ aq_retrieval.docs # <<>>

\* the exception the completion step raised underneath
AqUnderlying == IF aq_resp = "fail" THEN ServiceError ELSE MalformedError

\* C14: when the retriever returns at least one chunk, the calls are the
\* retrieval followed by exactly one completion request that carries the
\* context assembled from the retrieved chunks; on success the reply is
\* returned verbatim, on failure the operation raises an error whose cause
\* is the underlying exception, and no second completion request is sent.
C14_RetrieveAssembleCompleteOnce ==
    AqRetrievedSome =>
        /\ Len(AqCalls) = 2
        /\ AqCalls[1] = RetrieveCall(aq_question)
        /\ AqCalls[2].svc = "complete"
        /\ AqCalls[2].user =
               Lit("Here is context from the meeting transcript:\n\n")
                   \o _format_context(aq_retrieval.docs, aq_max_context_chars)
                   \o Lit("\n\nUsing ONLY this context, answer the following question:\n\nQuestion: ")
                   \o aq_question
        /\ aq_resp \notin {"fail", "malformed"} =>
               /\ ~aq_result.exc
               /\ aq_result.val = Lit(aq_resp)
        /\ aq_resp \in {"fail", "malformed"} =>
               /\ aq_result.exc
               /\ aq_result.val = <<>>
               /\ aq_result.err[1].cause = <<AqUnderlying>>

\* the completion request failed after two chunks were retrieved, the first
\* of which does not fit the default budget
C14_Witness ==
    /\ AqRetrievedSome
    /\ Len(aq_retrieval.docs) = 2
    /\ aq_retrieval.docs[1].page_content = Rep("b", DefaultMaxContextChars)
    /\ aq_max_context_chars = DefaultMaxContextChars
    /\ aq_resp = "fail"
    /\ aq_result.exc
    /\ Len(AqCalls) = 2

====
